---- MODULE Spec2Model ----
(***************************************************************************)
(* Bytecode cache FFI of otter-jsc-sys: the Full backend                   *)
(* (bytecode_cache.cpp) and the Stub backend (bytecode_cache_stub.c).      *)
(*                                                                         *)
(* Host threads call the four bytecode entry points on one JSC VM.  The    *)
(* state is what the calls can observe or change: the caller's result      *)
(* record, the VM's reentrant JSLock, the open file handles, the file      *)
(* system at the paths used, and each call's position in its function.     *)
(***************************************************************************)
EXTENDS Integers, Sequences, FiniteSets, TLC

VARIABLES
    backend,    \* which translation unit is linked: "Full" or "Stub"
    hosts,      \* the host threads that use the context
    pc,         \* pc[t]: position of thread t inside its current call
    args,       \* args[t]: the arguments of the current call
    given,      \* given[t]: the caller's result record as it was at call time
    out,        \* out[t]: the caller's result record (OtterBytecodeResult)
    ret,        \* ret[t]: the bool the call returned
    held0,      \* held0[t]: t's hold on the JSLock when the call began
    label,      \* label[t]: filenameString handed to makeSource
    outcome,    \* outcome[t]: what the open / engine step of the call produced
    trace,      \* trace[t]: lock, file and engine operations of the current call
    handle,     \* handle[t]: the FileHandle of the current call
    before,     \* before[t]: what openFile found at the path
    lockOwner,  \* JSLock: owning thread
    lockCount,  \* JSLock: recursion depth of the owner
    lastAcq,    \* the thread whose JSLockHolder acquired the lock most recently
    fs          \* file system: content at each path

vars == <<backend, hosts, pc, args, given, out, ret, held0, label, outcome, trace,
          handle, before, lockOwner, lockCount, lastAcq, fs>>

-----------------------------------------------------------------------------
(* Bounds of the model *)

\* how many times an idle host thread may itself enter the VM's lock
MaxHostDepth == 1

\* number of pages the engine streams for one complete artifact
NumPages == 2

(* Program constants *)

\* sizeof(error_message)
ErrorMessageSize == 256

-----------------------------------------------------------------------------
(* Values *)

Threads == {"t1", "t2"}
NoThread == "none"

NullPtr == "NULL"
NoLabel == "<unset>"
NoHandle == [path |-> NullPtr, pos |-> 0]

\* a page of a file: who wrote it and which page of the writer's artifact it is
Page(w, i) == [w |-> w, i |-> i]
Hole == Page("hole", 0)
Artifact(w) == [i \in 1..NumPages |-> Page(w, i)]

\* a path of the file system: no file, or a file with its pages
Absent == [exists |-> FALSE, data |-> <<>>]
File(data) == [exists |-> TRUE, data |-> data]
OldArtifact == File(Artifact("old"))

WritablePath == "out.jsc"
MissingDirPath == "missing/out.jsc"
ReadOnlyPath == "ro.jsc"
Paths == {WritablePath, MissingDirPath, ReadOnlyPath}

OpProgram == "generate_program_bytecode"
OpProgramToFile == "generate_program_bytecode_to_file"
OpModuleToFile == "generate_module_bytecode_to_file"
OpEvaluate == "evaluate_with_cache"
Ops == {OpProgram, OpProgramToFile, OpModuleToFile, OpEvaluate}
ToFileOps == {OpProgramToFile, OpModuleToFile}

\* (filename, filename_len) pairs a caller may pass
Filenames == { [buf |-> NullPtr, len |-> 0],
               [buf |-> "a.js",  len |-> 0],
               [buf |-> "a.js",  len |-> 4] }

\* contents of the caller's record before the call
Zeroed == [success |-> FALSE, data |-> NullPtr, size |-> 0, error_message |-> ""]
Stale  == [success |-> TRUE, data |-> "stale", size |-> 7, error_message |-> "stale"]
InitialResults == {Zeroed, Stale}

NoArgs == [op |-> "none", ctx |-> NullPtr, source |-> NullPtr,
           filename |-> [buf |-> NullPtr, len |-> 0], path |-> NullPtr, out |-> FALSE]

\* The arguments a host thread may pass to entry point op.  A host that uses
\* the context alone passes anything, null pointers included; hosts that share
\* the context pass well-formed arguments and differ in the path they name.
ArgsOf(op) ==
    IF Cardinality(hosts) = 1
    THEN [op : {op}, ctx : {NullPtr, "invalid", "vm"}, source : {NullPtr, "src"},
          filename : Filenames, path : {NullPtr} \cup Paths, out : BOOLEAN]
    ELSE [op : {op}, ctx : {"vm"}, source : {"src"},
          filename : {[buf |-> NullPtr, len |-> 0]},
          path : {WritablePath, ReadOnlyPath}, out : {TRUE}]

GivenOf == IF Cardinality(hosts) = 1 THEN InitialResults ELSE {Zeroed}

-----------------------------------------------------------------------------
(* Pure helpers *)

Min(a, b) == IF a < b THEN a ELSE b
Max(a, b) == IF a > b THEN a ELSE b

\* snprintf(out->error_message, sizeof(out->error_message), "%s", s)
Snprintf(s) == SubSeq(s, 1, Min(Len(s), ErrorMessageSize - 1))

\* strncpy(out->error_message, s, sizeof - 1); error_message[sizeof - 1] = '\0'
Strncpy(s) == SubSeq(s, 1, Min(Len(s), ErrorMessageSize - 1))

\* WTF::String::fromUTF8(std::span<const char>(p, len))
fromUTF8(buf, len) == SubSeq(buf, 1, Min(Len(buf), len))

\* filename ? fromUTF8(filename, filename_len) : default
filenameString(f, default) ==
    IF f.buf # NullPtr THEN fromUTF8(f.buf, f.len) ELSE default

DefaultLabel(op) == IF op = OpModuleToFile THEN "module.js" ELSE "script.js"

\* toJS(ctx)
toJS(ctx) == IF ctx = "vm" THEN "globalObject" ELSE NullPtr

Hold(t) == IF lockOwner = t THEN lockCount ELSE 0

-----------------------------------------------------------------------------
(* File system, as FileSystem::openFile(path, Truncate) and the engine's   *)
(* writes through the handle see it                                        *)

DirExists(p) == p # MissingDirPath
ReadOnly(p) == p = ReadOnlyPath

\* open(2) with O_WRONLY|O_CREAT|O_TRUNC succeeds iff the directory exists
\* and an existing file is writable
CanOpen(p) == DirExists(p) /\ ~(fs[p].exists /\ ReadOnly(p))

\* variant: the file is opened for writing without truncation
KeepContent(f) == IF f.exists THEN f ELSE File(<<>>)

\* what FileOpenMode::Truncate leaves of the previous content
Truncated(f) == File(<<>>)

\* write one page at offset pos of the handle (a gap reads as a hole)
WriteAt(f, pos, page) ==
    File([i \in 1..Max(Len(f.data), pos + 1) |->
            IF i = pos + 1 THEN page
            ELSE IF i <= Len(f.data) THEN f.data[i] ELSE Hole])

-----------------------------------------------------------------------------
(* The assignments to *out on each exit path *)

\* out->success = false; snprintf(..., "Invalid arguments")
InvalidArguments(r) ==
    [r EXCEPT !.success = FALSE, !.error_message = Snprintf("Invalid arguments")]

\* out->success = false; snprintf(..., "Invalid context")
InvalidContext(r) ==
    [r EXCEPT !.success = FALSE, !.error_message = Snprintf("Invalid context")]

\* variant: the file-less entry point reports a generated artifact
GeneratedInMemory(r) ==
    [success |-> TRUE, data |-> "buffer", size |-> NumPages, error_message |-> ""]

\* the file-less entry point's last three lines
UseFileVariant(r) ==
    [r EXCEPT !.success = FALSE,
              !.error_message = Snprintf("Bytecode generation requires file handle - use otter_generate_program_bytecode_to_file instead")]

\* snprintf(..., "Failed to open output file: %s", output_path)
OpenFailed(r, path) ==
    [r EXCEPT !.success = FALSE,
              !.error_message = Snprintf("Failed to open output file: " \o path)]

\* what the engine's generate*Bytecode hands back for each outcome:
\* the RefPtr (null or not), error.isValid() and error.message()
EngineReturn(x) ==
    CASE x = "ok"              -> [bytecode |-> TRUE,  errorValid |-> FALSE, message |-> ""]
      [] x = "parse_error"     -> [bytecode |-> FALSE, errorValid |-> TRUE,
                                   message |-> "SyntaxError: Unexpected token"]
      [] x = "serialize_error" -> [bytecode |-> FALSE, errorValid |-> TRUE,
                                   message |-> "Could not write the full cache file to disk"]
      [] x = "no_artifact"     -> [bytecode |-> FALSE, errorValid |-> FALSE, message |-> ""]
CompileOutcomes == {"ok", "parse_error", "serialize_error", "no_artifact"}

GenericFailure(op) ==
    IF op = OpModuleToFile THEN "Module bytecode generation failed"
    ELSE "Bytecode generation failed"

\* if (!bytecode || error.isValid()) {...} else {success; data; size; message}
GenerateResult(r, op, e, size) ==
    IF ~e.bytecode \/ e.errorValid
    THEN [r EXCEPT !.success = FALSE,
                   !.error_message = IF e.errorValid THEN Snprintf(e.message)
                                     ELSE Snprintf(GenericFailure(op))]
    ELSE [success |-> TRUE, data |-> NullPtr, size |-> size, error_message |-> ""]

\* what JSC::evaluate leaves in `exception`: none, or a thrown value whose
\* string conversion is text (a script may throw the empty string)
EvaluateOutcomes == { [threw |-> FALSE, text |-> ""],
                      [threw |-> TRUE,  text |-> "Error: boom"],
                      [threw |-> TRUE,  text |-> ""] }

\* variant: evaluation insists on a cache file at bytecode_path
EvaluateFromCache(t, r, x) ==
    IF ~fs[args[t].path].exists \/ x.threw
    THEN [r EXCEPT !.success = FALSE,
                   !.error_message = Snprintf(IF x.threw THEN x.text
                                              ELSE "Failed to read bytecode cache")]
    ELSE [success |-> TRUE, data |-> NullPtr, size |-> 0, error_message |-> ""]

\* if (exception) {...} else {success; data; size = 0; message}
EvaluateResult(t, r, x) ==
    IF x.threw
    THEN [r EXCEPT !.success = FALSE, !.error_message = Snprintf(x.text)]
    ELSE [success |-> TRUE, data |-> NullPtr, size |-> 0, error_message |-> ""]

\* variant: the stub leaves data and size as the caller passed them
StubResultKeepSize(r, msg) ==
    [r EXCEPT !.success = FALSE, !.error_message = Strncpy(msg)]

\* the Stub backend's  if (out) {...}  block
StubResult(r, msg) ==
    [success |-> FALSE, data |-> NullPtr, size |-> 0, error_message |-> Strncpy(msg)]

GenerationUnavailable == "Bytecode generation not available with system JSC"
EvaluationUnavailable == "Bytecode cache evaluation not available with system JSC"

-----------------------------------------------------------------------------
(* Null checks at function entry *)

\* if (!ctx || !source || !out)
ProgramArgsInvalid(a) == a.ctx = NullPtr \/ a.source = NullPtr \/ ~a.out

\* variant: the null check forgets the source pointer
ToFileArgsInvalidNoSource(a) == a.ctx = NullPtr \/ a.path = NullPtr \/ ~a.out

\* if (!ctx || !source || !output_path || !out)
ToFileArgsInvalid(a) ==
    a.ctx = NullPtr \/ a.source = NullPtr \/ a.path = NullPtr \/ ~a.out

-----------------------------------------------------------------------------
Init ==
    /\ backend \in {"Full", "Stub"}
    /\ hosts \in {{"t1"}, Threads}
    /\ pc = [t \in Threads |-> "idle"]
    /\ args = [t \in Threads |-> NoArgs]
    /\ given = [t \in Threads |-> Zeroed]
    /\ out = [t \in Threads |-> Zeroed]
    /\ ret = [t \in Threads |-> FALSE]
    /\ held0 = [t \in Threads |-> 0]
    /\ label = [t \in Threads |-> NoLabel]
    /\ outcome = [t \in Threads |-> "none"]
    /\ trace = [t \in Threads |-> <<>>]
    /\ handle = [t \in Threads |-> NoHandle]
    /\ before = [t \in Threads |-> Absent]
    /\ lockOwner = NoThread
    /\ lockCount = 0
    /\ lastAcq = NoThread
    /\ \E c \in {Absent, OldArtifact} :
          fs = [p \in Paths |-> IF p = WritablePath THEN c
                                ELSE IF p = ReadOnlyPath THEN OldArtifact
                                ELSE Absent]

\* the caller places a call: the frame common to every entry point
Enter(t, a, g) ==
    /\ t \in hosts
    /\ pc[t] = "idle"
    /\ args' = [args EXCEPT ![t] = a]
    /\ given' = [given EXCEPT ![t] = g]
    /\ held0' = [held0 EXCEPT ![t] = Hold(t)]
    /\ outcome' = [outcome EXCEPT ![t] = "none"]
    /\ trace' = [trace EXCEPT ![t] = <<>>]

\* a function that returns false at once with *out set to r (when out # NULL)
ReturnEarly(t, a, g, r) ==
    /\ pc' = [pc EXCEPT ![t] = "done"]
    /\ out' = [out EXCEPT ![t] = IF a.out THEN r ELSE g]
    /\ ret' = [ret EXCEPT ![t] = FALSE]

-----------------------------------------------------------------------------
(* Full backend *)

\* bytecode_cache.cpp: the whole file-less function; it takes no lock, opens
\* no file and calls no compiler
otter_generate_program_bytecode(t) ==
    /\ backend = "Full"
    /\ \E a \in ArgsOf(OpProgram), g \in GivenOf :
        /\ Enter(t, a, g)
        /\ IF ProgramArgsInvalid(a)
           THEN /\ ReturnEarly(t, a, g, InvalidArguments(g))
                /\ label' = [label EXCEPT ![t] = NoLabel]
           ELSE IF toJS(a.ctx) = NullPtr
           THEN /\ ReturnEarly(t, a, g, InvalidContext(g))
                /\ label' = [label EXCEPT ![t] = NoLabel]
           ELSE /\ ReturnEarly(t, a, g, UseFileVariant(g))
                /\ label' = [label EXCEPT ![t] = filenameString(a.filename, DefaultLabel(a.op))]
    /\ UNCHANGED <<backend, hosts, before, handle, lockOwner, lockCount, lastAcq, fs>>

\* entry of a *_to_file function: null checks, toJS, then on to JSLockHolder
ToFileEntry(t, op) ==
    /\ backend = "Full"
    /\ \E a \in ArgsOf(op), g \in GivenOf :
        /\ Enter(t, a, g)
        /\ IF ToFileArgsInvalid(a)
           THEN ReturnEarly(t, a, g, InvalidArguments(g))
           ELSE IF toJS(a.ctx) = NullPtr
           THEN ReturnEarly(t, a, g, InvalidContext(g))
           ELSE /\ pc' = [pc EXCEPT ![t] = "lock"]
                /\ out' = [out EXCEPT ![t] = g]
                /\ UNCHANGED ret
    /\ label' = [label EXCEPT ![t] = NoLabel]
    /\ UNCHANGED <<backend, hosts, before, handle, lockOwner, lockCount, lastAcq, fs>>

otter_generate_program_bytecode_to_file(t) == ToFileEntry(t, OpProgramToFile)

otter_generate_module_bytecode_to_file(t) == ToFileEntry(t, OpModuleToFile)

\* variant: the generation path goes on without taking the lock
JSLockHolderNoLock(t) ==
    /\ pc[t] = "lock"
    /\ lastAcq' = t
    /\ label' = [label EXCEPT ![t] = filenameString(args[t].filename, DefaultLabel(args[t].op))]
    /\ trace' = [trace EXCEPT ![t] = Append(@, "lock")]
    /\ pc' = [pc EXCEPT ![t] = "open"]
    /\ UNCHANGED <<backend, hosts, before, args, given, out, ret, held0, outcome,
                   handle, fs, lockOwner, lockCount>>

\* JSC::JSLockHolder locker(vm): blocks while another thread owns the lock,
\* re-enters when the caller owns it; then the strings and makeSource
JSLockHolder(t) ==
    /\ pc[t] = "lock"
    /\ lockOwner \in {NoThread, t}
    /\ lockOwner' = t
    /\ lockCount' = lockCount + 1
    /\ lastAcq' = t
    /\ label' = [label EXCEPT ![t] = filenameString(args[t].filename, DefaultLabel(args[t].op))]
    /\ trace' = [trace EXCEPT ![t] = Append(@, "lock")]
    /\ pc' = [pc EXCEPT ![t] = "open"]
    /\ UNCHANGED <<backend, hosts, before, args, given, out, ret, held0, outcome, handle, fs>>

\* variant: the lock is released by hand and the open-failure return forgets it
openFileLeak(t) ==
    /\ pc[t] = "open"
    /\ LET p == args[t].path IN
       /\ before' = [before EXCEPT ![t] = fs[p]]
       /\ trace' = [trace EXCEPT ![t] = Append(@, "open")]
       /\ IF CanOpen(p)
          THEN /\ fs' = [fs EXCEPT ![p] = File(<<>>)]
               /\ handle' = [handle EXCEPT ![t] = [path |-> p, pos |-> 0]]
               /\ pc' = [pc EXCEPT ![t] = "compile"]
               /\ UNCHANGED <<out, ret, outcome>>
          ELSE /\ out' = [out EXCEPT ![t] = OpenFailed(@, p)]
               /\ ret' = [ret EXCEPT ![t] = FALSE]
               /\ outcome' = [outcome EXCEPT ![t] = "open_failed"]
               /\ pc' = [pc EXCEPT ![t] = "done"]
               /\ UNCHANGED <<fs, handle>>
    /\ UNCHANGED <<backend, hosts, args, given, held0, label, lockOwner, lockCount, lastAcq>>

\* FileSystem::openFile(outputPathString, Truncate); if (!isValid()) fail
openFile(t) ==
    /\ pc[t] = "open"
    /\ LET p == args[t].path IN
       /\ before' = [before EXCEPT ![t] = fs[p]]
       /\ trace' = [trace EXCEPT ![t] = Append(@, "open")]
       /\ IF CanOpen(p)
          THEN /\ fs' = [fs EXCEPT ![p] = Truncated(@)]
               /\ handle' = [handle EXCEPT ![t] = [path |-> p, pos |-> 0]]
               /\ pc' = [pc EXCEPT ![t] = "compile"]
               /\ UNCHANGED <<out, ret, outcome>>
          ELSE /\ out' = [out EXCEPT ![t] = OpenFailed(@, p)]
               /\ ret' = [ret EXCEPT ![t] = FALSE]
               /\ outcome' = [outcome EXCEPT ![t] = "open_failed"]
               /\ pc' = [pc EXCEPT ![t] = "unlock"]
               /\ UNCHANGED <<fs, handle>>
    /\ UNCHANGED <<backend, hosts, args, given, held0, label, lockOwner, lockCount, lastAcq>>

\* JSC::generateProgramBytecode / generateModuleBytecode is entered: the
\* engine parses and compiles; a failure here has written nothing
generateBytecode(t) ==
    /\ pc[t] = "compile"
    /\ \E x \in CompileOutcomes :
        /\ outcome' = [outcome EXCEPT ![t] = x]
        /\ pc' = [pc EXCEPT ![t] = IF x \in {"ok", "serialize_error"}
                                   THEN "stream" ELSE "close"]
    /\ trace' = [trace EXCEPT ![t] = Append(@, "compile")]
    /\ UNCHANGED <<backend, hosts, before, args, given, out, ret, held0, label, handle,
                   lockOwner, lockCount, lastAcq, fs>>

\* the engine streams one page of the artifact through the handle; a
\* serialize error is reported after the first page
streamPage(t) ==
    /\ pc[t] = "stream"
    /\ LET h == handle[t] IN
        /\ fs' = [fs EXCEPT ![h.path] = WriteAt(@, h.pos, Page(t, h.pos + 1))]
        /\ handle' = [handle EXCEPT ![t].pos = h.pos + 1]
        /\ pc' = [pc EXCEPT ![t] =
                    IF outcome[t] = "serialize_error" \/ h.pos + 1 = NumPages
                    THEN "close" ELSE "stream"]
    /\ UNCHANGED <<backend, hosts, before, args, given, out, ret, held0, label, outcome, trace,
                   lockOwner, lockCount, lastAcq>>

\* the engine call has returned: *out is filled in, the function returns and
\* ~FileHandle closes the file
closeFile(t) ==
    /\ pc[t] = "close"
    /\ LET e == EngineReturn(outcome[t]) IN
        /\ out' = [out EXCEPT ![t] = GenerateResult(@, args[t].op, e, NumPages)]
        /\ ret' = [ret EXCEPT ![t] = e.bytecode /\ ~e.errorValid]
    /\ handle' = [handle EXCEPT ![t] = NoHandle]
    /\ trace' = [trace EXCEPT ![t] = Append(@, "close")]
    /\ pc' = [pc EXCEPT ![t] = "unlock"]
    /\ UNCHANGED <<backend, hosts, before, args, given, held0, label, outcome,
                   lockOwner, lockCount, lastAcq, fs>>

\* ~JSLockHolder: the last destructor to run
JSLockHolderDtor(t) ==
    /\ pc[t] = "unlock"
    /\ IF lockOwner = t
       THEN /\ lockCount' = lockCount - 1
            /\ lockOwner' = IF lockCount = 1 THEN NoThread ELSE t
       ELSE UNCHANGED <<lockOwner, lockCount>>
    /\ trace' = [trace EXCEPT ![t] = Append(@, "unlock")]
    /\ pc' = [pc EXCEPT ![t] = "done"]
    /\ UNCHANGED <<backend, hosts, before, args, given, out, ret, held0, label, outcome,
                   handle, lastAcq, fs>>

\* entry of otter_evaluate_with_cache: null checks, toJS, the strings and
\* makeSource; bytecode_path is converted to a string and not used again
otter_evaluate_with_cache(t) ==
    /\ backend = "Full"
    /\ \E a \in ArgsOf(OpEvaluate), g \in GivenOf :
        /\ Enter(t, a, g)
        /\ IF ToFileArgsInvalid(a)
           THEN /\ ReturnEarly(t, a, g, InvalidArguments(g))
                /\ UNCHANGED label
           ELSE IF toJS(a.ctx) = NullPtr
           THEN /\ ReturnEarly(t, a, g, InvalidContext(g))
                /\ UNCHANGED label
           ELSE /\ pc' = [pc EXCEPT ![t] = "evaluate"]
                /\ out' = [out EXCEPT ![t] = g]
                /\ label' = [label EXCEPT ![t] = filenameString(a.filename, DefaultLabel(a.op))]
                /\ UNCHANGED ret
    /\ UNCHANGED <<backend, hosts, before, handle, lockOwner, lockCount, lastAcq, fs>>

\* JSC::evaluate(globalObject, sourceCode, JSValue(), exception) runs and
\* returns; *out is filled in
evaluate(t) ==
    /\ pc[t] = "evaluate"
    /\ \E x \in EvaluateOutcomes :
        /\ outcome' = [outcome EXCEPT ![t] = IF x.threw THEN "exception" ELSE "completed"]
        /\ out' = [out EXCEPT ![t] = EvaluateResult(t, @, x)]
        /\ ret' = [ret EXCEPT ![t] = ~x.threw]
    /\ trace' = [trace EXCEPT ![t] = Append(@, "evaluate")]
    /\ pc' = [pc EXCEPT ![t] = "done"]
    /\ UNCHANGED <<backend, hosts, before, args, given, held0, label, handle,
                   lockOwner, lockCount, lastAcq, fs>>

-----------------------------------------------------------------------------
(* Stub backend: each function is  if (out) {...}; return false;  *)

StubCall(t, op, msg) ==
    /\ backend = "Stub"
    /\ \E a \in ArgsOf(op), g \in GivenOf :
        /\ Enter(t, a, g)
        /\ ReturnEarly(t, a, g, StubResult(g, msg))
    /\ UNCHANGED <<backend, hosts, before, label, handle, lockOwner, lockCount, lastAcq, fs>>

stub_generate_program_bytecode(t) == StubCall(t, OpProgram, GenerationUnavailable)

stub_generate_program_bytecode_to_file(t) ==
    StubCall(t, OpProgramToFile, GenerationUnavailable)

stub_generate_module_bytecode_to_file(t) ==
    StubCall(t, OpModuleToFile, GenerationUnavailable)

stub_evaluate_with_cache(t) == StubCall(t, OpEvaluate, EvaluationUnavailable)

-----------------------------------------------------------------------------
(* The host *)

\* the caller takes the result and is free to call again
Return(t) ==
    /\ pc[t] = "done"
    /\ pc' = [pc EXCEPT ![t] = "idle"]
    /\ args' = [args EXCEPT ![t] = NoArgs]
    /\ given' = [given EXCEPT ![t] = Zeroed]
    /\ out' = [out EXCEPT ![t] = Zeroed]
    /\ ret' = [ret EXCEPT ![t] = FALSE]
    /\ held0' = [held0 EXCEPT ![t] = 0]
    /\ label' = [label EXCEPT ![t] = NoLabel]
    /\ outcome' = [outcome EXCEPT ![t] = "none"]
    /\ trace' = [trace EXCEPT ![t] = <<>>]
    /\ before' = [before EXCEPT ![t] = Absent]
    /\ UNCHANGED <<backend, hosts, handle, lockOwner, lockCount, lastAcq, fs>>

\* a host thread that drives the context itself enters the VM's lock
HostLock(t) ==
    /\ t \in hosts
    /\ pc[t] = "idle"
    /\ backend = "Full"
    /\ lockOwner \in {NoThread, t}
    /\ Hold(t) < MaxHostDepth
    /\ lockOwner' = t
    /\ lockCount' = lockCount + 1
    /\ UNCHANGED <<backend, hosts, before, pc, args, given, out, ret, held0, label, outcome,
                   trace, handle, lastAcq, fs>>

HostUnlock(t) ==
    /\ pc[t] = "idle"
    /\ lockOwner = t
    /\ lockCount' = lockCount - 1
    /\ lockOwner' = IF lockCount = 1 THEN NoThread ELSE t
    /\ UNCHANGED <<backend, hosts, before, pc, args, given, out, ret, held0, label, outcome,
                   trace, handle, lastAcq, fs>>

-----------------------------------------------------------------------------
Next ==
    \E t \in Threads :
        \/ otter_generate_program_bytecode(t)
        \/ otter_generate_program_bytecode_to_file(t)
        \/ otter_generate_module_bytecode_to_file(t)
        \/ JSLockHolder(t)
        \/ openFile(t)
        \/ generateBytecode(t)
        \/ streamPage(t)
        \/ closeFile(t)
        \/ JSLockHolderDtor(t)
        \/ otter_evaluate_with_cache(t)
        \/ evaluate(t)
        \/ stub_generate_program_bytecode(t)
        \/ stub_generate_program_bytecode_to_file(t)
        \/ stub_generate_module_bytecode_to_file(t)
        \/ stub_evaluate_with_cache(t)
        \/ Return(t)
        \/ HostLock(t)
        \/ HostUnlock(t)

Spec == Init /\ [][Next]_vars

-----------------------------------------------------------------------------
(* Properties *)

Range(q) == {q[i] : i \in DOMAIN q}

Full == backend = "Full"
Returned(t) == pc[t] = "done"

\* a call of a *_to_file entry point that got as far as opening the file, has
\* returned, and after which no other generation call has taken the lock
Generated(t) ==
    /\ Full
    /\ Returned(t)
    /\ args[t].op \in ToFileOps
    /\ outcome[t] # "none"
    /\ lastAcq = t

NonEmpty(f) == f.exists /\ f.data # <<>>

\* C1: at return of every entry point of either backend, whatever the record
\* held before: success = false implies a non-empty message and size = 0;
\* success = true implies an empty message.
C1_ResultInvariant ==
    \A t \in Threads :
        (Returned(t) /\ args[t].out) =>
            /\ ~out[t].success => (out[t].error_message # "" /\ out[t].size = 0)
            /\ out[t].success => out[t].error_message = ""

\* C2: in the Full backend every engine compile or evaluate step of a call
\* runs while the calling thread holds the VM's lock.
C2_EngineStepsUnderLock ==
    \A t \in Threads :
        pc[t] \in {"compile", "stream", "evaluate"} => lockOwner = t

\* a required pointer of the call is null (the path is required by the three
\* entry points that take one)
RequiredNull(a) ==
    \/ a.ctx = NullPtr
    \/ a.source = NullPtr
    \/ (a.op # OpProgram /\ a.path = NullPtr)

\* C3: a Full backend call with a result pointer and a null required pointer
\* returns at once with success = false and "Invalid arguments", having
\* taken no lock, opened no file and called no engine step.
C3_InvalidArguments ==
    \A t \in Threads :
        (Full /\ pc[t] # "idle" /\ args[t].out /\ RequiredNull(args[t])) =>
            /\ Returned(t)
            /\ ~out[t].success
            /\ ~ret[t]
            /\ out[t].error_message = "Invalid arguments"
            /\ trace[t] = <<>>
            /\ handle[t] = NoHandle
            /\ Hold(t) = held0[t]

C3_Witness ==
    \E t \in Threads :
        /\ Full /\ Returned(t) /\ args[t].out
        /\ args[t].op = OpModuleToFile
        /\ args[t].ctx = "vm" /\ args[t].source = "src" /\ args[t].path = NullPtr
        /\ given[t] = Stale
        /\ out[t].error_message = "Invalid arguments"

\* C4 as stated: after a failed generation (open failure, compile or
\* serialize error, no artifact) no non-empty file is at the output path; an
\* open failure never reaches the compile step.
C4_NoNonEmptyFileAfterFailure ==
    \A t \in Threads :
        (Generated(t) /\ ~out[t].success) =>
            /\ ~NonEmpty(fs[args[t].path])
            /\ outcome[t] = "open_failed" => "compile" \notin Range(trace[t])

\* C4 as amended: an open failure leaves the path exactly as the call found
\* it (no file is created, an existing file keeps its content) and the compile
\* step is never called; a failure the engine reports before it has streamed
\* anything (compile error, no artifact) leaves the file zero-length, also when
\* the path held an artifact before.
C4_FailureLeavesPathClean ==
    \A t \in Threads :
        (Generated(t) /\ ~out[t].success) =>
            LET p == args[t].path IN
            /\ outcome[t] = "open_failed" =>
                  /\ fs[p] = before[t]
                  /\ "compile" \notin Range(trace[t])
                  /\ out[t].error_message = "Failed to open output file: " \o p
            /\ outcome[t] \in {"parse_error", "no_artifact"} => fs[p] = File(<<>>)

C4_Witness ==
    \E t \in Threads :
        /\ Generated(t) /\ ~out[t].success
        /\ outcome[t] = "parse_error"
        /\ NonEmpty(before[t])
        /\ fs[args[t].path] = File(<<>>)

\* C5: every Stub backend call returns false; with a result pointer the record
\* is success = false, data = null, size = 0 and the capability-unavailable
\* message, whatever the other arguments; without one the caller's record is
\* untouched; no lock is taken, no file touched, no engine step called.
C5_StubAlwaysUnavailable ==
    backend = "Stub" =>
        /\ lockOwner = NoThread
        /\ \A p \in Paths : fs[p] \in {Absent, OldArtifact}
        /\ \A t \in Threads :
            Returned(t) =>
                /\ ~ret[t]
                /\ trace[t] = <<>>
                /\ handle[t] = NoHandle
                /\ IF args[t].out
                   THEN /\ out[t].success = FALSE
                        /\ out[t].data = NullPtr
                        /\ out[t].size = 0
                        /\ out[t].error_message # ""
                        /\ out[t].error_message =
                              IF args[t].op = OpEvaluate THEN EvaluationUnavailable
                              ELSE GenerationUnavailable
                   ELSE out[t] = given[t]

C5_Witness ==
    \E t \in Threads :
        /\ backend = "Stub" /\ Returned(t) /\ args[t].out
        /\ args[t].ctx = NullPtr /\ args[t].op = OpProgramToFile
        /\ given[t] = Stale
        /\ out[t].size = 0

\* thread t takes a step of a Full backend evaluateWithCache call
EvaluateStep(t) ==
    /\ Full
    /\ pc'[t] # pc[t]
    /\ pc'[t] # "idle"
    /\ args'[t].op = OpEvaluate

Blank(f) == f.buf = NullPtr \/ f.len = 0

\* C7: the origin label a call builds is never blank: a null or zero-length
\* label is replaced by "script.js" / "module.js", any other is used verbatim.
C7_LabelNeverBlank ==
    \A t \in Threads :
        label[t] # NoLabel =>
            /\ label[t] # ""
            /\ label[t] = IF Blank(args[t].filename) THEN DefaultLabel(args[t].op)
                          ELSE SubSeq(args[t].filename.buf, 1, args[t].filename.len)

Directive ==
    "Bytecode generation requires file handle - use otter_generate_program_bytecode_to_file instead"

CloseBeforeUnlock(q) ==
    \A i, j \in DOMAIN q : (q[i] = "close" /\ q[j] = "unlock") => i < j

\* C9: on every exit path of a Full backend call the thread's hold on the
\* lock is what it was before the call and no file handle is open; a handle
\* is only ever open while its thread holds the lock, and is closed before
\* the lock is released.
C9_ResourcesReleased ==
    \A t \in Threads :
        Full =>
            /\ pc[t] \in {"idle", "done"} => handle[t] = NoHandle
            /\ Returned(t) => (Hold(t) = held0[t] /\ CloseBeforeUnlock(trace[t]))
            /\ handle[t] # NoHandle => lockOwner = t

C9_Witness ==
    \E t \in Threads :
        /\ Full /\ Returned(t)
        /\ outcome[t] = "open_failed"
        /\ held0[t] = 1
        /\ Hold(t) = 1
        /\ "unlock" \in Range(trace[t])

InFileSection(t) == pc[t] \in {"open", "compile", "stream", "close"}

\* the open, compile-and-stream and close steps of two calls never interleave
FileSectionsExclusive ==
    \A t, u \in Threads :
        (t # u /\ InFileSection(t)) => (~InFileSection(u) /\ handle[u] = NoHandle)

\* both hosts have returned from a generation call on path p
BothGenerated(p) ==
    \A t \in Threads :
        /\ Returned(t)
        /\ args[t].op \in ToFileOps
        /\ args[t].path = p
        /\ outcome[t] # "none"

\* C10 as stated: the file sections of two generation calls on one context
\* never interleave, and after both calls on one path have returned the file
\* is the complete artifact of the call that took the lock last if that call
\* succeeded and zero-length if it failed.
C10_LastWriterArtifactOrEmpty ==
    /\ Full => FileSectionsExclusive
    /\ \A p \in Paths :
        (Full /\ BothGenerated(p)) =>
            fs[p] = IF out[lastAcq].success THEN File(Artifact(lastAcq))
                    ELSE File(<<>>)

\* the pages the engine had streamed when it reported a serialize error
StreamedPrefix(w, f) ==
    /\ f.exists
    /\ Len(f.data) \in 1..(NumPages - 1)
    /\ \A i \in DOMAIN f.data : f.data[i] = Page(w, i)

\* C10 as amended: the file sections never interleave, and after both calls
\* have returned the file is what the call that took the lock last left: its
\* complete artifact if it succeeded, zero length if it failed before the
\* engine streamed anything, the pages of its own artifact streamed so far if
\* serialization failed, and what the call found if its open failed; never a
\* mixture of the two calls' writes.
C10_LastWriterWins ==
    /\ Full => FileSectionsExclusive
    /\ \A p \in Paths :
        (Full /\ BothGenerated(p)) =>
            LET w == lastAcq IN
            CASE outcome[w] = "ok" -> fs[p] = File(Artifact(w)) /\ out[w].success
              [] outcome[w] \in {"parse_error", "no_artifact"} -> fs[p] = File(<<>>)
              [] outcome[w] = "serialize_error" -> StreamedPrefix(w, fs[p])
              [] outcome[w] = "open_failed" -> fs[p] = before[w]

C10_Witness ==
    /\ Full
    /\ BothGenerated(WritablePath)
    /\ lastAcq = "t2"
    /\ outcome["t1"] = "ok" /\ outcome["t2"] = "ok"
    /\ fs[WritablePath] = File(Artifact("t2"))

====
